---- MODULE Spec2Model ----
(***************************************************************************)
(* Task cycle and ledger engine of benchatronics/meta (Django, MySQL).     *)
(*                                                                         *)
(* One user is modelled: every row of the engine (Wallet, WalletTxn,       *)
(* UserTask, UserTaskProgress, ForcedTaskDirective, DepositRequest,        *)
(* WithdrawalRequest) is keyed by its user and no operation reads another  *)
(* user's rows.  Money is in cents.                                        *)
(*                                                                         *)
(* Concurrency: the handlers run in Django transactions at MySQL's READ    *)
(* COMMITTED level.  A handler is split where its code reads rows without  *)
(* a lock (a plain SELECT, a model instance kept in memory) and writes     *)
(* them later: the read step copies what it saw into the request's local   *)
(* state, and the write step, which is the transaction's commit, uses the  *)
(* copy where the code uses the in-memory instance.                        *)
(***************************************************************************)
EXTENDS Integers, Sequences, FiniteSets, TLC

\* ------------------------------------------------------------------ bounds
MaxLedger == 5      \* WalletTxn rows written in one run
MaxTasks == 2       \* UserTask rows created in one run
MaxDirectives == 1  \* ForcedTaskDirective rows created in one run
MaxDeposits == 1    \* DepositRequest rows created in one run
MaxWithdrawals == 2 \* WithdrawalRequest rows created in one run
MaxTasksLong == 3      \* UserTask rows of a run that enters a second cycle
MaxDirectivesLong == 2 \* ForcedTaskDirective rows of such a run
NumReq == 2         \* requests in flight at the same time

Req == 1..NumReq

\* ------------------------------------------------- settings and the catalog
\* tasksettngs.task_limit_per_cycle (an admin setting, >= 1)
task_limit_per_cycle == 2
\* tasksettngs.block_on_reaching_limit
block_on_reaching_limit == TRUE
\* tasksettngs.clear_trial_bonus_at_limit
clear_trial_bonus_at_limit == TRUE
\* _SingletonModel.cycles_between_withdrawals
cycles_between_withdrawals == 2
\* settings.TRIAL_BONUS_EUR * 100: the signup bonus, in cents
TrialBonusCents == 30000
\* constants.FEE_PCT (percent) and constants.FEE_FIXED_EUR (cents)
FeePct == 2
FeeFixedCents == 100

\* UserTaskTemplate rows (admin data): prices and commissions in cents
Templates ==
    [ R1 |-> [is_admin_task |-> FALSE, status |-> "ACTIVE", task_price |-> 1200, task_commission |-> 145],
      R0 |-> [is_admin_task |-> FALSE, status |-> "ACTIVE", task_price |-> 1200, task_commission |-> 0],
      A1 |-> [is_admin_task |-> TRUE,  status |-> "ACTIVE", task_price |-> 1500, task_commission |-> 500] ]

TemplateIds == DOMAIN Templates

\* a template's task_price / task_commission left empty (NULL)
Null == 0 - 1

\* the tasksettngs singleton as it stands before an admin edits it
SettingsInit ==
    [task_limit_per_cycle |-> task_limit_per_cycle,
     block_on_reaching_limit |-> block_on_reaching_limit,
     clear_trial_bonus_at_limit |-> clear_trial_bonus_at_limit,
     task_price |-> 1200, task_commission |-> 145]

\* amounts a user deposits / asks to withdraw, in cents (forms: MIN_EUR..MAX_EUR)
DepositAmounts == {1000}
WithdrawAmounts == {2000}

VARIABLES
    balance_cents,  \* Wallet.balance_cents (CASH)
    bonus_cents,    \* Wallet.bonus_cents (BONUS)
    pending_cents,  \* Wallet.pending_cents
    ledger,         \* WalletTxn rows of the wallet, oldest first
    tasks,          \* UserTask rows, by primary key
    prog,           \* the UserTaskProgress row
    directives,     \* ForcedTaskDirective rows, by primary key (= creation order)
    deposits,       \* DepositRequest rows, by primary key
    withdrawals,    \* WithdrawalRequest rows, by primary key
    req,            \* per request: its position and what it holds in memory
    settings,       \* the tasksettngs singleton row
    catalog         \* UserTaskTemplate rows, by template

walletVars == <<balance_cents, bonus_cents, pending_cents, ledger>>
engineVars == <<tasks, prog, directives>>
railVars == <<deposits, withdrawals>>
adminVars == <<settings, catalog>>
vars == <<balance_cents, bonus_cents, pending_cents, ledger, tasks, prog,
          directives, deposits, withdrawals, req, settings, catalog>>

\* UserTaskTemplate.effective_price / effective_commission
effective_price(k) ==
    IF catalog[k].task_price # Null THEN catalog[k].task_price ELSE settings.task_price
effective_commission(k) ==
    IF catalog[k].task_commission # Null THEN catalog[k].task_commission
    ELSE settings.task_commission

Min(a, b) == IF a <= b THEN a ELSE b
Max(a, b) == IF a >= b THEN a ELSE b

\* ------------------------------------------------------------------ ledger
Buckets == {"CASH", "BONUS"}

\* external_ref and memo values: a tag and a primary key; NoRef is the blank ""
NoRef == <<"", 0>>

\* WalletTxn row
Txn(amt, kind, bucket, memo, ref) ==
    [amount_cents |-> amt, kind |-> kind, bucket |-> bucket, memo |-> memo,
     external_ref |-> ref]

\* WalletTxn.objects.filter(wallet=self, external_ref=ref).exists()
RefExists(l, ref) == \E i \in 1..Len(l) : l[i].external_ref = ref

RECURSIVE SumBucket(_, _)
\* sum of the ledger's amount_cents for one bucket
SumBucket(l, b) ==
    IF l = <<>> THEN 0
    ELSE (IF Head(l).bucket = b THEN Head(l).amount_cents ELSE 0)
         + SumBucket(Tail(l), b)

\* number of ledger rows carrying external_ref ref
RefCount(l, ref) == Cardinality({i \in 1..Len(l) : l[i].external_ref = ref})

\* The wallet and its ledger as one value, for the operators below
TheWallet == [balance_cents |-> balance_cents, bonus_cents |-> bonus_cents,
              ledger |-> ledger]

\* the replay test with the blank-key test inverted
IsReplayBlank(l, ref) == ref = NoRef /\ RefExists(l, ref)

\* `if external_ref and ...exists(): return False`
IsReplay(l, ref) == ref # NoRef /\ RefExists(l, ref)

\* the F() update of one bucket and the WalletTxn.objects.create that follows it
WalletApply(w, signed, kind, bucket, memo, ref) ==
    [balance_cents |-> IF bucket = "CASH" THEN w.balance_cents + signed ELSE w.balance_cents,
     bonus_cents   |-> IF bucket = "BONUS" THEN w.bonus_cents + signed ELSE w.bonus_cents,
     ledger        |-> Append(w.ledger, Txn(signed, kind, bucket, memo, ref))]

\* Wallet.credit_once, run without interleaving (inside a handler's transaction)
credit_once(w, amount_cents, bucket, kind, memo, ref) ==
    IF IsReplay(w.ledger, ref) THEN w
    ELSE WalletApply(w, amount_cents, kind, bucket, memo, ref)

\* Wallet.debit_once, run without interleaving (inside a handler's transaction)
debit_once(w, amount_cents, bucket, kind, memo, ref) ==
    IF IsReplay(w.ledger, ref) THEN w
    ELSE WalletApply(w, 0 - amount_cents, kind, bucket, memo, ref)

\* Wallet.credit (legacy, no idempotency key)
credit(w, amount_cents, bucket, kind, memo) ==
    WalletApply(w, amount_cents, kind, bucket, memo, NoRef)

\* _wallet_credit_idem: kind defaults to ADJUST, bucket to CASH
_wallet_credit_idem(w, amount_cents, memo, ref) ==
    IF amount_cents <= 0 THEN w
    ELSE credit_once(w, amount_cents, "CASH", "ADJUST", memo, ref)

\* ---------------------------------------------------------------- progress
ProgFields == {"current_task_index", "cycles_completed", "is_blocked",
               "limit_snapshot", "price_snapshot", "commission_snapshot",
               "dividends_cents", "dividends_paid_cents",
               "asset_cents", "processing_cents", "last_withdraw_cycle"}

\* UserTaskProgress.save(update_fields=uf) of the in-memory instance `self`
\* over the stored row `db` (`old` in the code): the two auto-changes, then
\* the UPDATE of uf and of what they changed.  Gives the instance and the row.
ProgSave(self, db, uf) ==
    LET hit1 == /\ self.current_task_index >= self.limit_snapshot
                /\ ~self.is_blocked
                /\ ~db.is_blocked
        s1 == IF hit1
              THEN [self EXCEPT !.cycles_completed = @ + 1, !.is_blocked = TRUE]
              ELSE self
        hit2 == /\ db.is_blocked
                /\ ~s1.is_blocked
                /\ db.current_task_index >= db.limit_snapshot
        s2 == IF hit2
              THEN [s1 EXCEPT !.limit_snapshot = settings.task_limit_per_cycle,
                              !.price_snapshot = settings.task_price,
                              !.commission_snapshot = settings.task_commission,
                              !.current_task_index = 0]
              ELSE s1
        changed == (IF hit1 THEN {"cycles_completed", "is_blocked"} ELSE {})
                   \cup (IF hit2 THEN {"current_task_index", "limit_snapshot",
                                      "price_snapshot", "commission_snapshot"}
                         ELSE {})
        written == uf \cup changed
    IN [self |-> s2,
        db |-> [f \in ProgFields |-> IF f \in written THEN s2[f] ELSE db[f]]]

\* UserTaskProgress.add_commission
add_commission(self, db, commission_cents) ==
    ProgSave([self EXCEPT !.dividends_cents = @ + commission_cents], db,
             {"dividends_cents"})

\* UserTaskProgress.set_state_normal (preserve_settled = True)
set_state_normal(self, db) ==
    IF self.processing_cents = 0 /\ self.asset_cents > self.dividends_cents
    THEN [self |-> self, db |-> db]
    ELSE ProgSave([self EXCEPT !.asset_cents = self.dividends_cents,
                               !.processing_cents = 0],
                  db, {"asset_cents", "processing_cents"})

\* UserTaskProgress.set_state_admin_assigned
set_state_admin_assigned(self, db, price_cents, admin_commission_cents, required_cents) ==
    ProgSave([self EXCEPT !.asset_cents = 0 - required_cents,
                          !.processing_cents = price_cents + admin_commission_cents],
             db, {"asset_cents", "processing_cents"})

\* UserTaskProgress.set_state_admin_approved
set_state_admin_approved(self, db, price_cents) ==
    ProgSave([self EXCEPT !.asset_cents = price_cents, !.processing_cents = 0],
             db, {"asset_cents", "processing_cents"})

\* UserTaskProgress.advance over the wallet row w, `seen` being the bonus of
\* the wallet instance it read (self.user.wallet) when the limit is reached:
\* the bonus bucket is zeroed by an UPDATE and one BONUS row of minus the
\* bonus read is inserted.
advance_seen(self, db, w, seen) ==
    LET i == self.current_task_index + 1
        hit == settings.block_on_reaching_limit /\ i >= self.limit_snapshot
        s1 == IF hit
              THEN [self EXCEPT !.current_task_index = i,
                                !.cycles_completed = @ + 1,
                                !.is_blocked = TRUE]
              ELSE [self EXCEPT !.current_task_index = i]
        w1 == IF hit /\ settings.clear_trial_bonus_at_limit /\ seen > 0
              THEN [w EXCEPT !.bonus_cents = 0,
                             !.ledger = Append(@, Txn(0 - seen, "BONUS", "BONUS",
                                                      <<"Trial bonus cleared", 0>>, NoRef))]
              ELSE w
        p == ProgSave(s1, db, {"current_task_index", "cycles_completed", "is_blocked"})
    IN [self |-> p.self, db |-> p.db, w |-> w1]

\* UserTaskProgress.advance when the wallet is read as it stands
advance(self, db, w) == advance_seen(self, db, w, w.bonus_cents)

\* an unblock that keeps the snapshots the cycle started with
unblock_keep_snapshots(db) ==
    ProgSave([db EXCEPT !.current_task_index = 0, !.is_blocked = FALSE],
             db, {"current_task_index", "is_blocked", "limit_snapshot",
                  "price_snapshot", "commission_snapshot"}).db

\* UserTaskProgress.unblock, on the instance ensure_task_progress just loaded
unblock(db) ==
    ProgSave([db EXCEPT !.limit_snapshot = settings.task_limit_per_cycle,
                        !.price_snapshot = settings.task_price,
                        !.commission_snapshot = settings.task_commission,
                        !.current_task_index = 0,
                        !.is_blocked = FALSE],
             db, {"current_task_index", "is_blocked", "limit_snapshot",
                  "price_snapshot", "commission_snapshot"}).db

\* UserTaskProgress.can_withdraw (the boolean of the pair)
can_withdraw(p) ==
    IF p.cycles_completed < 1 THEN FALSE
    ELSE IF p.last_withdraw_cycle = 0 THEN TRUE
    ELSE p.cycles_completed >= p.last_withdraw_cycle + cycles_between_withdrawals

\* UserTaskProgress.mark_withdraw_done
mark_withdraw_done(self, db) ==
    ProgSave([self EXCEPT !.last_withdraw_cycle = self.cycles_completed], db,
             {"last_withdraw_cycle"})

\* UserTaskProgress.register_withdraw: works on a row re-read under lock
register_withdraw(db, amount_cents) ==
    IF amount_cents <= 0 THEN db
    ELSE LET new_paid == Min(db.dividends_cents, db.dividends_paid_cents + amount_cents)
         IN IF new_paid # db.dividends_paid_cents
            THEN ProgSave([db EXCEPT !.dividends_paid_cents = new_paid], db,
                          {"dividends_paid_cents"}).db
            ELSE db

\* ------------------------------------------------------------------- tasks
InFlight == {"IN_PROGRESS", "SUBMITTED"}

TaskIds == 1..Len(tasks)

\* a dashboard that always shows the wallet as the total
display_totals_settled(p, w, ts) ==
    LET paid_div == Max(0, Min(p.dividends_paid_cents, p.dividends_cents))
        raw_wallet_total == w.balance_cents + w.bonus_cents
    IN [total_asset_cents |-> raw_wallet_total,
        asset_cents |-> Max(0, raw_wallet_total - Min(paid_div, raw_wallet_total)),
        dividends_cents |-> Min(paid_div, raw_wallet_total),
        processing_cents |-> p.processing_cents]

\* UserTaskProgress.display_totals over a progress row, the wallet and the tasks
display_totals(p, w, ts) ==
    LET base_div == p.dividends_cents
        paid_div == Max(0, Min(p.dividends_paid_cents, base_div))
        raw_wallet_total == w.balance_cents + w.bonus_cents
        approved_admins == {t \in 1..Len(ts) : ts[t].task_kind = "ADMIN"
                                               /\ ts[t].status = "APPROVED"}
        RECURSIVE PaidSum(_)
        PaidSum(S) == IF S = {} THEN 0
                      ELSE LET t == CHOOSE x \in S : TRUE
                           IN Max(0, ts[t].required_cash_cents) + PaidSum(S \ {t})
    IN IF p.processing_cents > 0
       THEN [total_asset_cents |-> p.asset_cents,
             asset_cents |-> p.asset_cents,
             dividends_cents |-> Min(paid_div, Max(0, raw_wallet_total)),
             processing_cents |-> p.processing_cents]
       ELSE IF approved_admins # {}
       THEN [total_asset_cents |-> raw_wallet_total,
             asset_cents |-> Min(Max(0, PaidSum(approved_admins)), raw_wallet_total),
             dividends_cents |-> base_div,
             processing_cents |-> 0]
       ELSE [total_asset_cents |-> raw_wallet_total,
             asset_cents |-> Max(0, raw_wallet_total - Min(paid_div, raw_wallet_total)),
             dividends_cents |-> Min(paid_div, raw_wallet_total),
             processing_cents |-> 0]

\* UserTask.mark_admin_assigned_effects on task t: progress is re-read
\* (ensure_task_progress); gives the tasks and the progress row.
mark_admin_assigned_effects(t, ts, db, w) ==
    IF ts[t].task_kind # "ADMIN" THEN [tasks |-> ts, db |-> db]
    ELSE LET old_total_display == display_totals(db, w, ts).total_asset_cents
             required == Max(0, ts[t].price_used - old_total_display)
         IN [tasks |-> [ts EXCEPT ![t].assignment_total_display_cents = old_total_display,
                                  ![t].required_cash_cents = required],
             db |-> set_state_admin_assigned(db, db, ts[t].price_used,
                                             ts[t].commission_used, required).db]

\* UserTask row as spawn_next_task_for_user creates it
NewTask(tpl, kind, cycle, order) ==
    [template |-> tpl, task_kind |-> kind, status |-> "IN_PROGRESS",
     cycle_number |-> cycle, order_shown |-> order,
     price_used |-> effective_price(tpl),
     commission_used |-> effective_commission(tpl),
     assignment_total_display_cents |-> 0, required_cash_cents |-> 0]

RegularRef(t) == <<"REGULAR_TASK_PAYOUT", t>>
AdminRef(t) == <<"ADMIN_TASK_PAYOUT", t>>

\* The rows one approval works on
TheStore == [db |-> prog, w |-> TheWallet, tasks |-> tasks, seen |-> bonus_cents]

\* the bonus advance reads after the approval's own wallet writes: an UPDATE
\* of the approval holds the wallet row, and the read then gives the row as it
\* stands; with no UPDATE before it the read is the one the request made
SeenBonus(S, w1) == IF w1 # S.w THEN w1.bonus_cents ELSE S.seen

\* UserTask._auto_approve_regular of task t, `self` being the progress
\* instance the request loaded before the transaction
_auto_approve_regular(t, self, S) ==
    LET commission_cents == S.tasks[t].commission_used
        p1 == add_commission(self, S.db, commission_cents)
        w1 == IF commission_cents > 0
              THEN _wallet_credit_idem(S.w, commission_cents, RegularRef(t), RegularRef(t))
              ELSE S.w
        new_paid == p1.self.dividends_paid_cents + commission_cents
        p2 == IF commission_cents > 0
              THEN ProgSave([p1.self EXCEPT !.dividends_paid_cents =
                                 Max(0, Min(new_paid, p1.self.dividends_cents))],
                            p1.db, {"dividends_paid_cents"})
              ELSE p1
        p3 == set_state_normal(p2.self, p2.db)
        ts == [S.tasks EXCEPT ![t].status = "APPROVED"]
        a == advance_seen(p3.self, p3.db, w1, SeenBonus(S, w1))
    IN [db |-> a.db, w |-> a.w, tasks |-> ts]

\* a payout that nets the price off
admin_payout_net(t, self, S) ==
    self.dividends_cents - Max(0, Min(self.dividends_paid_cents, self.dividends_cents))
    + S.tasks[t].commission_used - S.tasks[t].price_used

\* the payout of an ADMIN approval: the dividends not paid yet (clamped) plus
\* this task's commission, never the price
admin_payout_cents(t, self, S) ==
    LET div_cents == self.dividends_cents
        paid_cents == Max(0, Min(self.dividends_paid_cents, div_cents))
        unpaid_old == div_cents - paid_cents
    IN unpaid_old + S.tasks[t].commission_used

\* UserTask._auto_approve_admin_inline of task t: the task row is re-read
\* under select_for_update, the progress instance is the one loaded before
_auto_approve_admin_inline(t, self, S) ==
    IF S.tasks[t].status = "APPROVED" THEN S
    ELSE
    LET admin_commission_cents == S.tasks[t].commission_used
        payout_cents == admin_payout_cents(t, self, S)
        w1 == IF payout_cents > 0
              THEN _wallet_credit_idem(S.w, payout_cents, AdminRef(t), AdminRef(t))
              ELSE S.w
        p1 == add_commission(self, S.db, admin_commission_cents)
        p2 == ProgSave([p1.self EXCEPT !.dividends_paid_cents = p1.self.dividends_cents],
                       p1.db, {"dividends_paid_cents"})
        p3 == set_state_admin_approved(p2.self, p2.db, S.tasks[t].price_used)
        ts == [S.tasks EXCEPT ![t].status = "APPROVED"]
        a == advance_seen(p3.self, p3.db, w1, SeenBonus(S, w1))
    IN [db |-> a.db, w |-> a.w, tasks |-> ts]

\* -------------------------------------------------------------- directives
\* ForcedTaskDirective row; created_at grows with the primary key
NewDirective(cycle, order, tpl) ==
    [applies_on_cycle |-> cycle, target_order |-> order, template |-> tpl,
     status |-> "PENDING", expired |-> FALSE]

\* PENDING and `expires_at is null or expires_at > now`
Live(d) == d.status = "PENDING" /\ ~d.expired

\* a lookup that never looks at expires_at
ResolveDirectiveUnexpiring(ds, cycle, next_order) ==
    LET strict == {i \in 1..Len(ds) : /\ ds[i].status = "PENDING"
                                      /\ ds[i].applies_on_cycle = cycle
                                      /\ ds[i].target_order = next_order}
        fallback == {i \in 1..Len(ds) : /\ ds[i].status = "PENDING"
                                        /\ ds[i].target_order = next_order
                                        /\ ds[i].applies_on_cycle <= cycle}
        Before(i, j) == \/ ds[i].applies_on_cycle < ds[j].applies_on_cycle
                        \/ /\ ds[i].applies_on_cycle = ds[j].applies_on_cycle
                           /\ i <= j
    IN IF strict # {} THEN CHOOSE i \in strict : \A j \in strict : i <= j
       ELSE IF fallback # {} THEN CHOOSE i \in fallback : \A j \in fallback : Before(i, j)
       ELSE 0

\* a lookup that serves the oldest applicable directive, backlog included
ResolveDirectiveOldest(ds, cycle, next_order) ==
    LET fallback == {i \in 1..Len(ds) : /\ Live(ds[i])
                                        /\ ds[i].target_order = next_order
                                        /\ ds[i].applies_on_cycle <= cycle}
        Before(i, j) == \/ ds[i].applies_on_cycle < ds[j].applies_on_cycle
                        \/ /\ ds[i].applies_on_cycle = ds[j].applies_on_cycle
                           /\ i <= j
    IN IF fallback # {} THEN CHOOSE i \in fallback : \A j \in fallback : Before(i, j)
       ELSE 0

\* a lookup that knows the exact slot only
ResolveDirectiveStrict(ds, cycle, next_order) ==
    LET strict == {i \in 1..Len(ds) : /\ Live(ds[i])
                                      /\ ds[i].applies_on_cycle = cycle
                                      /\ ds[i].target_order = next_order}
    IN IF strict # {} THEN CHOOSE i \in strict : \A j \in strict : i <= j
       ELSE 0

\* The directive lookup of spawn_next_task_for_user: 0 when there is none
ResolveDirective(ds, cycle, next_order) ==
    LET strict == {i \in 1..Len(ds) : /\ Live(ds[i])
                                      /\ ds[i].applies_on_cycle = cycle
                                      /\ ds[i].target_order = next_order}
        fallback == {i \in 1..Len(ds) : /\ Live(ds[i])
                                        /\ ds[i].target_order = next_order
                                        /\ ds[i].applies_on_cycle <= cycle}
        Before(i, j) == \/ ds[i].applies_on_cycle < ds[j].applies_on_cycle
                        \/ /\ ds[i].applies_on_cycle = ds[j].applies_on_cycle
                           /\ i <= j
    IN IF strict # {} THEN CHOOSE i \in strict : \A j \in strict : i <= j
       ELSE IF fallback # {} THEN CHOOSE i \in fallback : \A j \in fallback : Before(i, j)
       ELSE 0

\* ---------------------------------------------------------------- requests
NoPlan == [kind |-> "none", d |-> 0, tpl |-> "R1", cycle |-> 0, order |-> 0]

ProgInit ==
    [current_task_index |-> 0, cycles_completed |-> 0, is_blocked |-> FALSE,
     limit_snapshot |-> task_limit_per_cycle, price_snapshot |-> 1200,
     commission_snapshot |-> 145, dividends_cents |-> 0,
     dividends_paid_cents |-> 0, asset_cents |-> 0, processing_cents |-> 0,
     last_withdraw_cycle |-> 0]

IdleReq == [pc |-> "idle", op |-> "none", res |-> "none", t |-> 0,
            status |-> "NONE", self |-> ProgInit, plan |-> NoPlan,
            amount_cents |-> 0, external_ref |-> NoRef, bonus_seen |-> 0,
            db_seen |-> ProgInit]

\* the request ends: its response stays readable, its in-memory rows are dropped
Finish(p, res) == req' = [req EXCEPT ![p] = [IdleReq EXCEPT !.res = res]]

\* a new request takes the lowest free slot (the slots are interchangeable)
Free(p) == req[p].pc = "idle" /\ \A q \in 1..(p - 1) : req[q].pc # "idle"

\* The user after signup (signals.wallet_create_and_trial_bonus) and the first
\* ensure_task_progress: the bonus bucket holds the trial bonus, with its row.
Init ==
    /\ balance_cents = 0
    /\ bonus_cents = TrialBonusCents
    /\ pending_cents = 0
    /\ ledger = <<Txn(TrialBonusCents, "BONUS", "BONUS", <<"Signup trial bonus", 0>>, NoRef)>>
    /\ tasks = <<>>
    /\ prog = ProgInit
    /\ settings = SettingsInit
    /\ catalog = Templates
    /\ directives = <<>>
    /\ deposits = <<>>
    /\ withdrawals = <<>>
    /\ req = [p \in Req |-> IdleReq]

SetWallet(w) ==
    /\ balance_cents' = w.balance_cents
    /\ bonus_cents' = w.bonus_cents
    /\ ledger' = w.ledger

\* ------------------------------------------------ submit (views.task_detail)
\* get_object_or_404(UserTask, pk=pk): the request holds the row it read
SubmitLoad(p, t) ==
    /\ Free(p)
    /\ t \in TaskIds
    /\ req' = [req EXCEPT ![p] = [IdleReq EXCEPT !.pc = "loaded", !.t = t,
                                               !.status = tasks[t].status]]
    /\ UNCHANGED <<walletVars, engineVars, railVars, adminVars>>

\* a solvency check that lets the bonus count
InsolventTotal(t) == balance_cents + bonus_cents < tasks[t].price_used

\* a solvency check that goes back to the template for the price
InsolventTemplate(t) == balance_cents < effective_price(tasks[t].template)

\* the strict solvency check of submit: CASH only, the bonus does not count
Insolvent(t) == balance_cents < tasks[t].price_used

\* UserTask.submit up to the transaction: the status check on the row held in
\* memory, the CASH solvency check of an ADMIN task on the wallet read now,
\* and ensure_task_progress, whose instance the approval keeps
SubmitCheck(p) ==
    /\ req[p].pc = "loaded"
    /\ LET t == req[p].t IN
       IF req[p].status # "IN_PROGRESS"
       THEN Finish(p, "InvalidState")
       ELSE IF tasks[t].task_kind = "ADMIN" /\ Insolvent(t)
       THEN Finish(p, "InsufficientFunds")
       ELSE req' = [req EXCEPT ![p].pc = "approve", ![p].self = prog]
    /\ UNCHANGED <<walletVars, engineVars, railVars, adminVars>>

\* submit's dispatch on the task kind
Approve(t, self, S) ==
    IF S.tasks[t].task_kind = "ADMIN"
    THEN _auto_approve_admin_inline(t, self, S)
    ELSE _auto_approve_regular(t, self, S)

\* the approval's transaction, as it commits
SubmitCommit(p) ==
    /\ req[p].pc = "approve"
    /\ LET t == req[p].t
           S == Approve(t, req[p].self, TheStore)
       IN /\ SetWallet(S.w)
          /\ prog' = S.db
          /\ tasks' = S.tasks
          /\ Finish(p, "ok")
    /\ UNCHANGED <<pending_cents, directives, railVars, adminVars>>

\* ------------------------------------------- do_task and the task spawner
Spawning == {q \in Req : req[q].pc \in {"spawn", "create"}}

\* user_taskview.do_task: go to the current task if one is in flight
DoTaskCheckWithin(p, n) ==
    /\ Free(p)
    /\ Len(tasks) + Cardinality(Spawning) < n
    /\ IF \E t \in TaskIds : tasks[t].status \in InFlight
       THEN Finish(p, "existing")
       ELSE req' = [req EXCEPT ![p] = [IdleReq EXCEPT !.pc = "spawn"]]
    /\ UNCHANGED <<walletVars, engineVars, railVars, adminVars>>

DoTaskCheck(p) == DoTaskCheckWithin(p, MaxTasks)

\* tpl_qs: the ACTIVE non-admin templates
ActiveRegular == {k \in TemplateIds : /\ catalog[k].status = "ACTIVE"
                                      /\ ~catalog[k].is_admin_task}

\* a pool that leaves the wallet out
EligibleAnyPrice == ActiveRegular

\* those of them whose price is within CASH + BONUS
Eligible == {k \in ActiveRegular : effective_price(k) <= balance_cents + bonus_cents}

\* the newest ADMIN task in flight, 0 when there is none
ExistingAdmin ==
    LET S == {t \in TaskIds : tasks[t].task_kind = "ADMIN" /\ tasks[t].status \in InFlight}
    IN IF S = {} THEN 0 ELSE CHOOSE t \in S : \A u \in S : u <= t

\* spawn_next_task_for_user, its reads: progress, the ADMIN task in flight,
\* the directive, the eligible templates and the random choice among them
SpawnRead(p) ==
    /\ req[p].pc = "spawn"
    /\ LET cycle == prog.cycles_completed
           next_order == prog.current_task_index + 1
           d == ResolveDirective(directives, cycle, next_order)
           Plan(kind, t, dd, tpl) ==
               req' = [req EXCEPT ![p].pc = "create", ![p].self = prog, ![p].t = t,
                                  ![p].status = IF t = 0 THEN "NONE" ELSE tasks[t].status,
                                  ![p].plan = [kind |-> kind, d |-> dd, tpl |-> tpl,
                                               cycle |-> cycle, order |-> next_order]]
       IN IF prog.is_blocked THEN Finish(p, "UserBlocked")
          ELSE IF ExistingAdmin # 0 THEN Plan("existing_admin", ExistingAdmin, 0, "R1")
          ELSE IF d # 0
          THEN IF directives[d].template = "NONE"
               THEN Finish(p, "MissingTemplate")
               ELSE Plan("directive", 0, d, directives[d].template)
          ELSE IF ActiveRegular = {} THEN Finish(p, "NoActiveTemplates")
          ELSE IF Eligible = {} THEN Finish(p, "NoEligibleTasks")
          ELSE \E k \in Eligible : Plan("regular", 0, 0, k)
    /\ UNCHANGED <<walletVars, engineVars, railVars, adminVars>>

\* spawn_next_task_for_user, its writes, as do_task's transaction commits
SpawnWrite(p) ==
    /\ req[p].pc = "create"
    /\ LET plan == req[p].plan
           new == Len(tasks) + 1
       IN CASE plan.kind = "existing_admin" ->
                 LET m == IF req[p].status = "IN_PROGRESS"
                          THEN mark_admin_assigned_effects(req[p].t, tasks, prog, TheWallet)
                          ELSE [tasks |-> tasks, db |-> prog]
                 IN /\ tasks' = m.tasks
                    /\ prog' = m.db
                    /\ directives' = directives
                    /\ Finish(p, "ok")
            [] plan.kind = "directive" ->
                 LET ts == Append(tasks, NewTask(plan.tpl, "ADMIN", plan.cycle, plan.order))
                     m == mark_admin_assigned_effects(new, ts, prog, TheWallet)
                 IN /\ tasks' = m.tasks
                    /\ prog' = m.db
                    /\ directives' = [directives EXCEPT ![plan.d].status = "CONSUMED"]
                    /\ Finish(p, "ok")
            [] plan.kind = "regular" ->
                 /\ tasks' = Append(tasks, NewTask(plan.tpl, "REGULAR", plan.cycle, plan.order))
                 /\ prog' = set_state_normal(req[p].self, prog).db
                 /\ directives' = directives
                 /\ Finish(p, "ok")
    /\ UNCHANGED <<walletVars, railVars, adminVars>>

\* ------------------------------------------------------ back-office actions
\* admin_view.bo_user_unblock
Unblock ==
    /\ prog' = unblock(prog)
    /\ UNCHANGED <<walletVars, tasks, directives, railVars, req, adminVars>>

\* admin_view.bo_directive_create
CreateDirectiveWithin(cycle, order, tpl, n) ==
    /\ Len(directives) < n
    /\ directives' = Append(directives, NewDirective(cycle, order, tpl))
    /\ UNCHANGED <<walletVars, tasks, prog, railVars, req, adminVars>>

CreateDirective(cycle, order, tpl) == CreateDirectiveWithin(cycle, order, tpl, MaxDirectives)

\* ------------------------------------------------------------------ deposits
\* views.deposit: the DepositRequest row, awaiting payment
CreateDeposit(amount) ==
    /\ Len(deposits) < MaxDeposits
    /\ deposits' = Append(deposits, [amount_cents |-> amount, status |-> "awaiting_payment"])
    /\ UNCHANGED <<walletVars, engineVars, withdrawals, req, adminVars>>

DepositMemo(d) == <<"Deposit", d>>

\* signals.auto_credit_wallet_on_deposit, run by the save of a deposit whose
\* status is a success status: credits CASH unless a DEPOSIT row has the memo
auto_credit_wallet_on_deposit(w, d, cents) ==
    IF cents <= 0 THEN w
    ELSE IF \E i \in 1..Len(w.ledger) : /\ w.ledger[i].kind = "DEPOSIT"
                                         /\ w.ledger[i].memo = DepositMemo(d)
    THEN w
    ELSE WalletApply(w, cents, "DEPOSIT", "CASH", DepositMemo(d), NoRef)

\* services.confirm_deposit (deposit_admin_confirm, the payment webhook): the
\* balance is raised on the locked wallet row, the deposit saved as confirmed,
\* and that save runs the post_save receiver inside the same transaction
ConfirmDeposit(d) ==
    /\ d \in 1..Len(deposits)
    /\ deposits[d].status \in {"draft", "awaiting_payment", "awaiting_review"}
    /\ LET w1 == [TheWallet EXCEPT !.balance_cents = @ + deposits[d].amount_cents]
       IN SetWallet(auto_credit_wallet_on_deposit(w1, d, deposits[d].amount_cents))
    /\ deposits' = [deposits EXCEPT ![d].status = "confirmed"]
    /\ UNCHANGED <<pending_cents, engineVars, withdrawals, req, adminVars>>

\* --------------------------------------------------------------- withdrawals
\* WithdrawalForm.compute_fee then cents(): amount * FEE_PCT + FEE_FIXED_EUR,
\* quantized to the cent (Decimal's default rounding, half to even)
compute_fee(amount_cents) ==
    LET n == amount_cents * FeePct
        q == n \div 100
        r == n % 100
        pct == IF r > 50 \/ (r = 50 /\ q % 2 = 1) THEN q + 1 ELSE q
    IN pct + (IF amount_cents > 0 THEN FeeFixedCents ELSE 0)

Withdrawing == {q \in Req : req[q].pc = "withdraw"}

\* the rows the duplicate guard of views.withdrawal looks for; whether one is
\* recent and has the same address and currency is up to the caller
Similar(amount) == {w \in 1..Len(withdrawals) :
                       /\ withdrawals[w].amount_cents = amount
                       /\ withdrawals[w].status \in {"pending", "confirmed"}}

\* views.withdrawal (POST, valid form), up to the transaction: the duplicate
\* guard and the cycle gate on the progress instance it keeps
WithdrawGate(p, amount, same) ==
    /\ Free(p)
    /\ Len(withdrawals) + Cardinality(Withdrawing) < MaxWithdrawals
    /\ same => Similar(amount) # {}
    /\ IF same THEN Finish(p, "Duplicate")
       ELSE IF ~can_withdraw(prog) THEN Finish(p, "NotAvailable")
       ELSE req' = [req EXCEPT ![p] = [IdleReq EXCEPT !.pc = "withdraw", !.self = prog,
                                                      !.amount_cents = amount]]
    /\ UNCHANGED <<walletVars, engineVars, railVars, adminVars>>

\* a balance check that counts the pending withdrawals as available
InsufficientBalancePending(amount_cents) == amount_cents > balance_cents + pending_cents

\* `if amount_cents > w.balance_cents`, on the wallet row read under lock
InsufficientBalance(amount_cents) == amount_cents > balance_cents

\* views.withdrawal, its transaction: under the wallet lock the balance
\* check, the pending request, the move CASH -> pending, mark_withdraw_done
WithdrawCommit(p) ==
    /\ req[p].pc = "withdraw"
    /\ LET amount == req[p].amount_cents IN
       IF InsufficientBalance(amount)
       THEN /\ Finish(p, "InsufficientBalance")
            /\ UNCHANGED <<walletVars, prog, withdrawals>>
       ELSE /\ withdrawals' = Append(withdrawals, [amount_cents |-> amount,
                                                   fee_cents |-> compute_fee(amount),
                                                   status |-> "pending"])
            /\ pending_cents' = pending_cents + amount
            /\ balance_cents' = balance_cents - amount
            /\ prog' = mark_withdraw_done(req[p].self, prog).db
            /\ Finish(p, "ok")
            /\ UNCHANGED <<bonus_cents, ledger>>
    /\ UNCHANGED <<tasks, directives, deposits, adminVars>>

WithdrawRef(w) == <<"wd", w>>

\* admin_view.bo_withdrawal_approve
BoWithdrawalApprove(w) ==
    /\ w \in 1..Len(withdrawals)
    /\ withdrawals[w].status = "pending"
    /\ SetWallet(debit_once(TheWallet, withdrawals[w].amount_cents + withdrawals[w].fee_cents,
                            "CASH", "WITHDRAW", <<"Withdrawal", w>>, WithdrawRef(w)))
    /\ withdrawals' = [withdrawals EXCEPT ![w].status = "confirmed"]
    /\ prog' = mark_withdraw_done(prog, prog).db
    /\ UNCHANGED <<pending_cents, tasks, directives, deposits, req, adminVars>>

\* UserTaskProgress.on_withdraw_confirmed, on the instance just loaded
on_withdraw_confirmed(db, amount_cents) ==
    mark_withdraw_done(db, register_withdraw(db, amount_cents)).db

\* WithdrawalRequest.mark_as_confirmed (admin.mark_withdrawals_completed)
MarkAsConfirmed(w) ==
    /\ w \in 1..Len(withdrawals)
    /\ withdrawals' = [withdrawals EXCEPT ![w].status = "confirmed"]
    /\ prog' = IF withdrawals[w].amount_cents > 0
               THEN on_withdraw_confirmed(prog, withdrawals[w].amount_cents)
               ELSE prog
    /\ UNCHANGED <<walletVars, tasks, directives, deposits, req, adminVars>>

\* -------------------------------------------------------------- the engine
Next ==
    \/ \E p \in Req, t \in 1..MaxTasks : SubmitLoad(p, t)
    \/ \E p \in Req : SubmitCheck(p)
    \/ \E p \in Req : SubmitCommit(p)
    \/ \E p \in Req : DoTaskCheck(p)
    \/ \E p \in Req : SpawnRead(p)
    \/ \E p \in Req : SpawnWrite(p)
    \/ Unblock
    \/ \E order \in 1..task_limit_per_cycle : CreateDirective(0, order, "A1")
    \/ \E a \in DepositAmounts : CreateDeposit(a)
    \/ \E d \in 1..MaxDeposits : ConfirmDeposit(d)

Spec == Init /\ [][Next]_vars

\* ------------------- the money rails; task requests come one at a time
NextRails ==
    \/ \E t \in 1..MaxTasks : SubmitLoad(1, t)
    \/ SubmitCheck(1)
    \/ SubmitCommit(1)
    \/ DoTaskCheck(1)
    \/ SpawnRead(1)
    \/ SpawnWrite(1)
    \/ Unblock
    \/ \E a \in DepositAmounts : CreateDeposit(a)
    \/ \E d \in 1..MaxDeposits : ConfirmDeposit(d)
    \/ \E p \in Req, a \in WithdrawAmounts, same \in BOOLEAN : WithdrawGate(p, a, same)
    \/ \E p \in Req : WithdrawCommit(p)
    \/ \E w \in 1..MaxWithdrawals : MarkAsConfirmed(w)

SpecRails == Init /\ [][NextRails]_vars

\* -------------- the task requests one at a time, with directives and deposits
NextTasks ==
    \/ \E t \in 1..MaxTasks : SubmitLoad(1, t)
    \/ SubmitCheck(1)
    \/ SubmitCommit(1)
    \/ DoTaskCheck(1)
    \/ SpawnRead(1)
    \/ SpawnWrite(1)
    \/ Unblock
    \/ \E order \in 1..task_limit_per_cycle : CreateDirective(0, order, "A1")
    \/ \E a \in DepositAmounts : CreateDeposit(a)
    \/ \E d \in 1..MaxDeposits : ConfirmDeposit(d)

SpecTasks == Init /\ [][NextTasks]_vars

\* the same with the back office paying the withdrawals out
NextPayout ==
    \/ NextRails
    \/ \E w \in 1..MaxWithdrawals : BoWithdrawalApprove(w)

SpecPayout == Init /\ [][NextPayout]_vars

\* ------------------------------------- the ledger under manual adjustments
ManualAmounts == {500}
ManualRefs == {NoRef, <<"X", 0>>}

LedgerBusy == {q \in Req : req[q].pc \in {"exists", "write"}}

\* admin_view.bo_user_wallet_credit / bo_user_wallet_debit: amount_cents > 0,
\* external_ref as posted; then credit_once / debit_once is entered
ManualCall(p, op, amount, ref) ==
    /\ Free(p)
    /\ Len(ledger) + Cardinality(LedgerBusy) < MaxLedger
    /\ amount > 0
    /\ req' = [req EXCEPT ![p] = [IdleReq EXCEPT !.pc = "exists", !.op = op,
                                               !.amount_cents = amount,
                                               !.external_ref = ref]]
    /\ UNCHANGED <<walletVars, engineVars, railVars, adminVars>>

\* credit_once / debit_once: the existence check on external_ref
LedgerExists(p) ==
    /\ req[p].pc = "exists"
    /\ IF IsReplay(ledger, req[p].external_ref)
       THEN Finish(p, "NoOp")
       ELSE req' = [req EXCEPT ![p].pc = "write"]
    /\ UNCHANGED <<walletVars, engineVars, railVars, adminVars>>

\* WalletTxn.Meta uniq_wallet_external_ref: one row per non-blank external_ref
UniqueViolation(l, ref) == ref # NoRef /\ RefExists(l, ref)

\* credit_once / debit_once: the F() update and the insert, as the handler's
\* transaction commits; the IntegrityError of the insert is not caught and
\* rolls the update back
LedgerWrite(p) ==
    /\ req[p].pc = "write"
    /\ IF UniqueViolation(ledger, req[p].external_ref)
       THEN /\ Finish(p, "IntegrityError")
            /\ UNCHANGED <<balance_cents, bonus_cents, ledger>>
       ELSE /\ SetWallet(WalletApply(TheWallet,
                                     IF req[p].op = "credit" THEN req[p].amount_cents
                                     ELSE 0 - req[p].amount_cents,
                                     "ADJUST", "CASH", <<"Manual", 0>>, req[p].external_ref))
            /\ Finish(p, "Done")
    /\ UNCHANGED <<pending_cents, engineVars, railVars, adminVars>>

NextLedger ==
    \/ \E p \in Req, op \in {"credit", "debit"}, a \in ManualAmounts, ref \in ManualRefs :
           ManualCall(p, op, a, ref)
    \/ \E p \in Req : LedgerExists(p)
    \/ \E p \in Req : LedgerWrite(p)

SpecLedger == Init /\ [][NextLedger]_vars

\* ------------------------------------------------ back-office task approval
\* UserTaskAdmin.save_model: the admin form writes the posted status, except
\* that ADMIN SUBMITTED -> APPROVED is routed through approve_admin. The
\* forms posted here are those on a task not yet finished.
AdminSaveModel(t, status) ==
    /\ t \in TaskIds
    /\ \A q \in Req : req[q].pc = "idle"
    /\ tasks[t].status \in {"IN_PROGRESS", "SUBMITTED"}
    /\ tasks[t].status # status
    /\ IF /\ tasks[t].task_kind = "ADMIN"
          /\ tasks[t].status = "SUBMITTED"
          /\ status = "APPROVED"
       THEN LET S == _auto_approve_admin_inline(t, prog, TheStore)
            IN SetWallet(S.w) /\ prog' = S.db /\ tasks' = S.tasks
       ELSE /\ tasks' = [tasks EXCEPT ![t].status = status]
            /\ UNCHANGED <<walletVars, prog>>
    /\ UNCHANGED <<pending_cents, directives, railVars, req, adminVars>>

\* UserTask.approve_admin raises unless the task is ADMIN and SUBMITTED
CanApproveAdmin(t) == tasks[t].task_kind = "ADMIN" /\ tasks[t].status = "SUBMITTED"

\* admin_view.bo_task_approve_admin: approve_admin, whose error is caught and
\* shown; the approval runs _auto_approve_admin_inline on rows read now
BoTaskApproveAdmin(t) ==
    /\ t \in TaskIds
    /\ IF CanApproveAdmin(t)
       THEN LET S == _auto_approve_admin_inline(t, prog, TheStore)
            IN SetWallet(S.w) /\ prog' = S.db /\ tasks' = S.tasks
       ELSE UNCHANGED <<walletVars, prog, tasks>>
    /\ UNCHANGED <<pending_cents, directives, railVars, req, adminVars>>

\* the task engine with one request at a time, the back-office approval of a
\* task put to SUBMITTED on the admin form, and manual debits of CASH
NextGate ==
    \/ \E t \in 1..MaxTasks : SubmitLoad(1, t)
    \/ SubmitCheck(1)
    \/ SubmitCommit(1)
    \/ DoTaskCheck(1)
    \/ SpawnRead(1)
    \/ SpawnWrite(1)
    \/ \E order \in 1..task_limit_per_cycle : CreateDirective(0, order, "A1")
    \/ \E a \in DepositAmounts : CreateDeposit(a)
    \/ \E d \in 1..MaxDeposits : ConfirmDeposit(d)
    \/ \E t \in 1..MaxTasks : AdminSaveModel(t, "SUBMITTED")
    \/ \E t \in 1..MaxTasks : BoTaskApproveAdmin(t)
    \/ \E p \in Req, a \in ManualAmounts : ManualCall(p, "debit", a, NoRef)
    \/ \E p \in Req : LedgerExists(p)
    \/ \E p \in Req : LedgerWrite(p)

SpecGate == Init /\ [][NextGate]_vars

\* ------------------------------------------------------- the trial scenario
\* settings.TRIAL_BONUS_EUR = 12: the signup bonus equals the price of the
\* regular templates
ScenarioBonusCents == 1200

\* The user after signup under that setting
InitTrial ==
    /\ balance_cents = 0
    /\ bonus_cents = ScenarioBonusCents
    /\ pending_cents = 0
    /\ ledger = <<Txn(ScenarioBonusCents, "BONUS", "BONUS", <<"Signup trial bonus", 0>>, NoRef)>>
    /\ tasks = <<>>
    /\ prog = ProgInit
    /\ settings = SettingsInit
    /\ catalog = Templates
    /\ directives = <<>>
    /\ deposits = <<>>
    /\ withdrawals = <<>>
    /\ req = [p \in Req |-> IdleReq]

SpecTrial == InitTrial /\ [][NextTasks]_vars

\* ------------------------------------------------- withdrawals in a row
\* an amount small enough for the balance to cover two requests
SmallWithdrawAmounts == {1000}

\* the rails, the user asking for the small amount
NextCooldown ==
    \/ \E t \in 1..MaxTasks : SubmitLoad(1, t)
    \/ SubmitCheck(1)
    \/ SubmitCommit(1)
    \/ DoTaskCheck(1)
    \/ SpawnRead(1)
    \/ SpawnWrite(1)
    \/ Unblock
    \/ \E a \in DepositAmounts : CreateDeposit(a)
    \/ \E d \in 1..MaxDeposits : ConfirmDeposit(d)
    \/ \E p \in Req, a \in SmallWithdrawAmounts, same \in BOOLEAN : WithdrawGate(p, a, same)
    \/ \E p \in Req : WithdrawCommit(p)
    \/ \E w \in 1..MaxWithdrawals : MarkAsConfirmed(w)

SpecCooldown == Init /\ [][NextCooldown]_vars

\* ------------------------------------------------ directives over two cycles
\* templates a directive is posted with: bo_directive_create takes none too
DirectiveTemplates == {"A1", "NONE"}

\* cycles a directive is posted for: the first and the second
DirectiveCycles == {0, 1}

\* one request at a time, the user unblocked into a second cycle, directives
\* posted for the first slot of either cycle
NextSlots ==
    \/ \E t \in 1..MaxTasksLong : SubmitLoad(1, t)
    \/ SubmitCheck(1)
    \/ SubmitCommit(1)
    \/ DoTaskCheckWithin(1, MaxTasksLong)
    \/ SpawnRead(1)
    \/ SpawnWrite(1)
    \/ Unblock
    \/ \E cycle \in DirectiveCycles, tpl \in DirectiveTemplates :
           CreateDirectiveWithin(cycle, 1, tpl, MaxDirectivesLong)

SpecSlots == Init /\ [][NextSlots]_vars

\* ------------------------------------------------------ a spawn that fails
\* a failed spawn whose task row outlives it
AfterFailedSpawnKept(ts, plan) ==
    Append(ts, NewTask(plan.tpl, "ADMIN", plan.cycle, plan.order))

\* the task rows a spawn leaves when its directive branch raises: the create
\* and the consume sit in one transaction.atomic, itself inside do_task's, so
\* the rollback takes the created row away
AfterFailedSpawn(ts, plan) == ts

\* spawn_next_task_for_user raises in its directive branch (the create, the
\* save of the directive or mark_admin_assigned_effects); do_task catches the
\* error after the rollback
SpawnFail(p) ==
    /\ req[p].pc = "create"
    /\ req[p].plan.kind = "directive"
    /\ tasks' = AfterFailedSpawn(tasks, req[p].plan)
    /\ Finish(p, "Error")
    /\ UNCHANGED <<walletVars, prog, directives, railVars, adminVars>>

NextAtomic ==
    \/ NextSlots
    \/ SpawnFail(1)

SpecAtomic == Init /\ [][NextAtomic]_vars

\* ------------------------------------------------- reject and cancel a task
\* admin_view.bo_task_reject: REJECTED from IN_PROGRESS or SUBMITTED, a
\* message otherwise
BoTaskReject(t) ==
    /\ t \in TaskIds
    /\ tasks' = IF tasks[t].status \in {"IN_PROGRESS", "SUBMITTED"}
                THEN [tasks EXCEPT ![t].status = "REJECTED"]
                ELSE tasks
    /\ UNCHANGED <<walletVars, prog, directives, railVars, req, adminVars>>

\* UserTaskAdmin.reject_selected on one selected task
RejectSelected(t) ==
    /\ t \in TaskIds
    /\ tasks' = IF tasks[t].status \in {"SUBMITTED", "IN_PROGRESS", "PENDING"}
                THEN [tasks EXCEPT ![t].status = "REJECTED"]
                ELSE tasks
    /\ UNCHANGED <<walletVars, prog, directives, railVars, req, adminVars>>

\* UserTaskAdmin.cancel_selected on one selected task: every status but
\* APPROVED and CANCELED
CancelSelected(t) ==
    /\ t \in TaskIds
    /\ tasks' = IF tasks[t].status \notin {"APPROVED", "CANCELED"}
                THEN [tasks EXCEPT ![t].status = "CANCELED"]
                ELSE tasks
    /\ UNCHANGED <<walletVars, prog, directives, railVars, req, adminVars>>

\* the task engine, one request at a time, beside the back-office decisions
NextDecide ==
    \/ NextTasks
    \/ \E t \in 1..MaxTasks : BoTaskReject(t)
    \/ \E t \in 1..MaxTasks : RejectSelected(t)
    \/ \E t \in 1..MaxTasks : CancelSelected(t)

SpecDecide == Init /\ [][NextDecide]_vars

\* --------------------------------------------------- an approval that fails
\* a failed approval whose wallet credit outlives it
AfterFailedApprovalCredited(S0, S1) == [S0 EXCEPT !.w = S1.w]

\* the rows a failed approval leaves, S0 the rows before it and S1 the rows
\* it had written: the whole approval runs in one transaction.atomic, and an
\* exception leaves that block through a rollback
AfterFailedApproval(S0, S1) == S0

\* submit raises inside the approval's transaction; task_detail catches the
\* error ("Submission failed")
SubmitFail(p) ==
    /\ req[p].pc = "approve"
    /\ LET S == AfterFailedApproval(TheStore, Approve(req[p].t, req[p].self, TheStore))
       IN /\ SetWallet(S.w)
          /\ prog' = S.db
          /\ tasks' = S.tasks
          /\ Finish(p, "Error")
    /\ UNCHANGED <<pending_cents, directives, railVars, adminVars>>

\* one request at a time through one cycle, the approval committing or
\* raising
NextRollback ==
    \/ \E t \in 1..MaxTasks : SubmitLoad(1, t)
    \/ SubmitCheck(1)
    \/ SubmitCommit(1)
    \/ SubmitFail(1)
    \/ DoTaskCheck(1)
    \/ SpawnRead(1)
    \/ SpawnWrite(1)
    \/ \E order \in 1..task_limit_per_cycle : CreateDirective(0, order, "A1")
    \/ \E a \in DepositAmounts : CreateDeposit(a)
    \/ \E d \in 1..MaxDeposits : ConfirmDeposit(d)

SpecRollback == Init /\ [][NextRollback]_vars

\* ================================================================== claims
\* C1: reconciliation -- in every reachable state the ledger rows of each
\* bucket sum to the bucket's balance.
C1_Reconciliation ==
    /\ SumBucket(ledger, "CASH") = balance_cents
    /\ SumBucket(ledger, "BONUS") = bonus_cents

BucketBalance(b) == IF b = "CASH" THEN balance_cents ELSE bonus_cents

\* C2: non-negative buckets -- after every committed operation, a manual
\* debit included, the CASH and the BONUS balance are each >= 0.
C2_NonNegativeBuckets == \A b \in Buckets : BucketBalance(b) >= 0

\* C3: idempotent replay -- a credit_once / debit_once whose non-empty
\* external_ref already has a row returns the no-op result and leaves the
\* balances and the ledger as they are; there is never more than one row per
\* non-empty external_ref, and the CASH balance is the sum of the rows.
C3_IdempotentReplay ==
    /\ [](\A ref \in ManualRefs \ {NoRef} : RefCount(ledger, ref) <= 1)
    /\ [](balance_cents = SumBucket(ledger, "CASH"))
    /\ [][\A p \in Req :
            (/\ req[p].pc = "exists"
             /\ req'[p] # req[p]
             /\ req[p].external_ref # NoRef
             /\ RefExists(ledger, req[p].external_ref))
            => (req'[p].pc = "idle" /\ req'[p].res = "NoOp" /\ UNCHANGED walletVars)]_vars

\* a replay was answered with the no-op result, its row being there once
C3_Witness ==
    \E p \in Req : /\ req[p].res = "NoOp"
                   /\ RefCount(ledger, <<"X", 0>>) = 1

\* C4: concurrent duplicates -- two credit_once calls with the same non-empty
\* external_ref, interleaved in any order, leave one row and neither call
\* surfaces an error.
C4_ConcurrentDuplicates ==
    /\ \A ref \in ManualRefs \ {NoRef} : RefCount(ledger, ref) <= 1
    /\ \A p \in Req : req[p].res # "IntegrityError"

\* C5: validated debits never overdraw -- with every debit issued after its
\* caller checked the balance it read (the withdrawal request, under the
\* wallet lock), no bucket is ever negative, however two requests interleave.
C5_ValidatedDebitsNeverOverdraw == balance_cents >= 0 /\ bonus_cents >= 0

\* a withdrawal was debited while another request, already past the gate,
\* waits for its own check, which the balance no longer covers
C5_Witness ==
    \E p \in Req : /\ req[p].pc = "withdraw"
                   /\ Len(withdrawals) = 1
                   /\ balance_cents >= 0
                   /\ InsufficientBalance(req[p].amount_cents)

\* C6: single in-flight task -- at most one task of the user is IN_PROGRESS
\* or SUBMITTED, REGULAR and ADMIN counted together.
C6_SingleInFlight == Cardinality({t \in TaskIds : tasks[t].status \in InFlight}) <= 1

\* C7: dividend bounds -- 0 <= dividends_paid_cents <= dividends_cents in
\* every reachable state.
C7_DividendBounds ==
    /\ 0 <= prog.dividends_paid_cents
    /\ prog.dividends_paid_cents <= prog.dividends_cents

\* C8: no duplicate effect from a double submit -- the approval of a task
\* that is already APPROVED when it commits credits no CASH, adds nothing to
\* dividends_cents and does not advance current_task_index.
C8_NoDuplicateEffect ==
    [][\A p \in Req :
         (/\ req[p].pc = "approve"
          /\ req'[p].pc = "idle"
          /\ tasks[req[p].t].status = "APPROVED")
         => /\ balance_cents' = balance_cents
            /\ prog'.dividends_cents = prog.dividends_cents
            /\ prog'.current_task_index = prog.current_task_index]_vars

\* the progress counters C9 names
Counters(p) == <<p.dividends_cents, p.dividends_paid_cents, p.current_task_index,
                 p.cycles_completed, p.is_blocked>>

\* C9: serialized progress updates -- a submit of a task still IN_PROGRESS,
\* whose progress row was unblocked between its read and its commit, ends
\* as one of the two serial orders does: unblock then submit, or submit
\* then unblock.
C9_SerializedProgressUpdates ==
    [][\A p \in Req :
         (/\ req[p].pc = "approve"
          /\ req'[p].pc = "idle"
          /\ tasks[req[p].t].status = "IN_PROGRESS"
          /\ prog # req[p].self
          /\ prog = unblock(req[p].self))
         => Counters(prog') \in
              { Counters(Approve(req[p].t, prog, TheStore).db),
                Counters(unblock(Approve(req[p].t, req[p].self,
                                         [TheStore EXCEPT !.db = req[p].self]).db)) }]_vars

\* C10: solvency failure leaves everything unchanged -- submit of an ADMIN
\* task that is IN_PROGRESS, with CASH below price_used whatever the bonus,
\* fails with the insufficient-funds error and changes neither the wallet,
\* nor the ledger, nor the task, nor the progress row.
C10_SolvencyFailure ==
    [][\A p \in Req :
         (/\ req[p].pc = "loaded"
          /\ req'[p] # req[p]
          /\ req[p].status = "IN_PROGRESS"
          /\ tasks[req[p].t].status = "IN_PROGRESS"
          /\ tasks[req[p].t].task_kind = "ADMIN"
          /\ balance_cents < tasks[req[p].t].price_used)
         => /\ req'[p].pc = "idle"
            /\ req'[p].res = "InsufficientFunds"
            /\ tasks'[req[p].t].status = "IN_PROGRESS"
            /\ UNCHANGED <<walletVars, engineVars>>]_vars

\* a submit was refused although CASH + BONUS covers the price
C10_Witness ==
    /\ \E p \in Req : req[p].res = "InsufficientFunds"
    /\ \E t \in TaskIds : /\ tasks[t].task_kind = "ADMIN"
                          /\ tasks[t].status = "IN_PROGRESS"
                          /\ balance_cents < tasks[t].price_used
                          /\ balance_cents + bonus_cents >= tasks[t].price_used

\* ------------------------------------- the admin edits the money settings
\* what the admin types in the Money fields of a template
EditedEconomics ==
    { [task_price |-> 2500, task_commission |-> 200],
      [task_price |-> Null, task_commission |-> Null] }
EditedTemplates == {"R1", "A1"}

\* what the admin types in the Per-task amounts of the settings
EconomicSettings ==
    { SettingsInit, [SettingsInit EXCEPT !.task_price = 900, !.task_commission = 100] }

\* UserTaskTemplateAdmin: the change form saves the Money fields of template k
EditTemplate(k, e) ==
    /\ catalog' = [catalog EXCEPT ![k].task_price = e.task_price,
                                  ![k].task_commission = e.task_commission]
    /\ catalog' # catalog
    /\ UNCHANGED <<walletVars, engineVars, railVars, req, settings>>

\* TaskSettingsAdmin: the change form saves the singleton
EditSettings(s) ==
    /\ settings' = s
    /\ settings' # settings
    /\ UNCHANGED <<walletVars, engineVars, railVars, req, catalog>>

NextEcon ==
    \/ NextTasks
    \/ \E k \in EditedTemplates, e \in EditedEconomics : EditTemplate(k, e)
    \/ \E s \in EconomicSettings : EditSettings(s)

SpecEcon == Init /\ [][NextEcon]_vars

\* ------------------------------------ the admin edits the cycle settings
\* what the admin types in the Task cycle and Per-task amounts of the settings
CycleSettings ==
    { SettingsInit,
      [SettingsInit EXCEPT !.task_limit_per_cycle = 1, !.task_price = 900,
                           !.task_commission = 100],
      [SettingsInit EXCEPT !.block_on_reaching_limit = FALSE] }

NextCycle ==
    \/ NextTasks
    \/ \E s \in CycleSettings : EditSettings(s)

SpecCycle == Init /\ [][NextCycle]_vars

\* ------------------------------- ADMIN assignments on a small trial bonus
\* one request at a time; the back office assigns ADMIN tasks, rejects and
\* cancels them, and the user deposits
NextAssign ==
    \/ \E t \in 1..MaxTasks : SubmitLoad(1, t)
    \/ SubmitCheck(1)
    \/ SubmitCommit(1)
    \/ DoTaskCheck(1)
    \/ SpawnRead(1)
    \/ SpawnWrite(1)
    \/ \E order \in 1..task_limit_per_cycle :
          CreateDirectiveWithin(0, order, "A1", MaxDirectivesLong)
    \/ \E a \in DepositAmounts : CreateDeposit(a)
    \/ \E d \in 1..MaxDeposits : ConfirmDeposit(d)
    \/ \E t \in 1..MaxTasks : BoTaskReject(t)
    \/ \E t \in 1..MaxTasks : CancelSelected(t)

SpecAssign == InitTrial /\ [][NextAssign]_vars

\* ------------------------------------ random tasks from an edited catalog
RegularTemplates == {k \in TemplateIds : ~Templates[k].is_admin_task}

\* UserTaskTemplateAdmin.mark_active / mark_paused on one selected template
MarkTemplate(k, status) ==
    /\ catalog' = [catalog EXCEPT ![k].status = status]
    /\ catalog' # catalog
    /\ UNCHANGED <<walletVars, engineVars, railVars, req, settings>>

\* one request at a time, no directive: every spawn takes the random branch
NextCatalog ==
    \/ \E t \in 1..MaxTasksLong : SubmitLoad(1, t)
    \/ SubmitCheck(1)
    \/ SubmitCommit(1)
    \/ DoTaskCheckWithin(1, MaxTasksLong)
    \/ SpawnRead(1)
    \/ SpawnWrite(1)
    \/ Unblock
    \/ \E k \in RegularTemplates, e \in EditedEconomics : EditTemplate(k, e)
    \/ \E k \in RegularTemplates, status \in {"ACTIVE", "PAUSED"} : MarkTemplate(k, status)

SpecCatalog == InitTrial /\ [][NextCatalog]_vars

\* ----------------------------------- approvals that overlap at the limit
\* The approval of a REGULAR task without commission writes no wallet row
\* before advance, so nothing holds the wallet while its transaction runs.
\* Its reads: the stored progress row (`old` in save) and the wallet
\* (w = self.user.wallet in advance); the request holds what it read.
AdvanceRead(p) ==
    /\ req[p].pc = "approve"
    /\ tasks[req[p].t].task_kind = "REGULAR"
    /\ tasks[req[p].t].commission_used = 0
    /\ req' = [req EXCEPT ![p].pc = "clear", ![p].bonus_seen = bonus_cents,
                          ![p].db_seen = prog]
    /\ UNCHANGED <<walletVars, engineVars, railVars, adminVars>>

\* the progress fields that approval saves: add_commission, set_state_normal
\* unless it returns early, advance, and what save() adds to update_fields
WrittenByRegular(self, db) ==
    {"dividends_cents", "current_task_index", "cycles_completed", "is_blocked"}
    \cup (IF self.processing_cents = 0 /\ self.asset_cents > self.dividends_cents
          THEN {} ELSE {"asset_cents", "processing_cents"})
    \cup (IF db.is_blocked /\ ~self.is_blocked
             /\ db.current_task_index >= db.limit_snapshot
          THEN {"limit_snapshot", "price_snapshot", "commission_snapshot"} ELSE {})

\* that approval's writes, after those reads: the UPDATEs of the progress
\* fields and of the task, the UPDATE bonus_cents = 0 and the INSERT of the
\* BONUS row on the wallet as it stands
SubmitClear(p) ==
    /\ req[p].pc = "clear"
    /\ LET t == req[p].t
           S == _auto_approve_regular(t, req[p].self,
                    [db |-> req[p].db_seen, w |-> TheWallet, tasks |-> tasks,
                     seen |-> req[p].bonus_seen])
           written == WrittenByRegular(req[p].self, req[p].db_seen)
       IN /\ SetWallet(S.w)
          /\ prog' = [f \in ProgFields |-> IF f \in written THEN S.db[f] ELSE prog[f]]
          /\ tasks' = S.tasks
          /\ Finish(p, "ok")
    /\ UNCHANGED <<pending_cents, directives, railVars, adminVars>>

\* two requests of the user
NextClear ==
    \/ \E p \in Req, t \in 1..MaxTasks : SubmitLoad(p, t)
    \/ \E p \in Req : SubmitCheck(p)
    \/ \E p \in Req : SubmitCommit(p)
    \/ \E p \in Req : AdvanceRead(p)
    \/ \E p \in Req : SubmitClear(p)
    \/ \E p \in Req : DoTaskCheck(p)
    \/ \E p \in Req : SpawnRead(p)
    \/ \E p \in Req : SpawnWrite(p)

\* The user after signup when the admin has set task_limit_per_cycle to 1:
\* ensure_task_progress copies the limit into the new progress row
InitShortCycle ==
    /\ balance_cents = 0
    /\ bonus_cents = TrialBonusCents
    /\ pending_cents = 0
    /\ ledger = <<Txn(TrialBonusCents, "BONUS", "BONUS", <<"Signup trial bonus", 0>>, NoRef)>>
    /\ tasks = <<>>
    /\ prog = [ProgInit EXCEPT !.limit_snapshot = 1]
    /\ settings = [SettingsInit EXCEPT !.task_limit_per_cycle = 1]
    /\ catalog = Templates
    /\ directives = <<>>
    /\ deposits = <<>>
    /\ withdrawals = <<>>
    /\ req = [p \in Req |-> IdleReq]

SpecClear == InitShortCycle /\ [][NextClear]_vars

\* ------------------------------------------ the directive lookup by itself
\* rows of the ForcedTaskDirective table, those of another user included, in
\* the order of created_at
MaxLookup == 3
LookupUsers == {"user", "other"}
LookupCycles == {0, 1}
LookupRows ==
    { [applies_on_cycle |-> c, target_order |-> o, template |-> "A1",
       status |-> st.status, expired |-> st.expired, user |-> u] :
        c \in 0..2, o \in 1..2, u \in LookupUsers,
        st \in { [status |-> "PENDING", expired |-> FALSE],
                 [status |-> "PENDING", expired |-> TRUE],
                 [status |-> "CANCELED", expired |-> FALSE],
                 [status |-> "CONSUMED", expired |-> FALSE] } }

LookupTables == UNION {[1..n -> LookupRows] : n \in 0..MaxLookup}

\* .filter(user=user): the positions of the user's rows in the table
RowsOf(rows, u) ==
    LET idx == [i \in 1..Len(rows) |-> i]
        Mine(i) == rows[i].user = u
    IN SelectSeq(idx, Mine)

InitLookup ==
    /\ balance_cents = 0
    /\ bonus_cents = TrialBonusCents
    /\ pending_cents = 0
    /\ ledger = <<Txn(TrialBonusCents, "BONUS", "BONUS", <<"Signup trial bonus", 0>>, NoRef)>>
    /\ tasks = <<>>
    /\ prog = ProgInit
    /\ settings = SettingsInit
    /\ catalog = Templates
    /\ directives \in LookupTables
    /\ deposits = <<>>
    /\ withdrawals = <<>>
    /\ req = [p \in Req |-> IdleReq]

\* the lookup of spawn_next_task_for_user for slot (cycle, next_order) of the
\* user: the request keeps the position of the row it found, 0 for none
Lookup(cycle, next_order) ==
    /\ req[1].res = "none"
    /\ LET mine == RowsOf(directives, "user")
           ds == [n \in 1..Len(mine) |-> directives[mine[n]]]
           d == ResolveDirective(ds, cycle, next_order)
       IN req' = [req EXCEPT ![1].res = "looked",
                             ![1].plan = [NoPlan EXCEPT !.kind = "directive",
                                                        !.d = IF d = 0 THEN 0 ELSE mine[d],
                                                        !.cycle = cycle,
                                                        !.order = next_order]]
    /\ UNCHANGED <<walletVars, engineVars, railVars, adminVars>>

NextLookup == \E cycle \in LookupCycles : Lookup(cycle, 1)

SpecLookup == InitLookup /\ [][NextLookup]_vars


C12_SolvencyGateEveryPath ==
    [][\A t \in TaskIds :
         (/\ tasks[t].task_kind = "ADMIN"
          /\ tasks[t].status # "APPROVED"
          /\ tasks'[t].status = "APPROVED")
         => balance_cents >= tasks[t].price_used]_vars

\* C12, the submit path alone: the approval that submit commits for an ADMIN
\* task starts with CASH >= price_used.
C12_GateAtSubmitCommit ==
    [][\A p \in Req :
         (/\ req[p].pc = "approve"
          /\ req'[p].pc = "idle"
          /\ tasks[req[p].t].task_kind = "ADMIN"
          /\ tasks[req[p].t].status # "APPROVED"
          /\ tasks'[req[p].t].status = "APPROVED")
         => balance_cents >= tasks[req[p].t].price_used]_vars

\* C13: the trial task runs on the bonus -- from CASH 0 and BONUS equal to
\* the price, the approval that submit commits for a REGULAR task IN_PROGRESS
\* ends with BONUS 0, CASH equal to the commission and the task APPROVED.
C13_TrialTaskOnBonus ==
    [][\A p \in Req :
         (/\ req[p].pc = "approve"
          /\ req'[p].pc = "idle"
          /\ tasks[req[p].t].task_kind = "REGULAR"
          /\ tasks[req[p].t].status = "IN_PROGRESS"
          /\ balance_cents = 0
          /\ bonus_cents = tasks[req[p].t].price_used)
         => /\ bonus_cents' = 0
            /\ balance_cents' = tasks[req[p].t].commission_used
            /\ tasks'[req[p].t].status = "APPROVED"]_vars

\* C14: block at the limit -- an approval that takes current_task_index to
\* limit_snapshot blocks the user and counts one more cycle; while the user
\* is blocked a spawn answers UserBlocked, creates no task and consumes no
\* directive; and the block ends by unblock() alone.
C14_BlockAtLimit ==
    [][/\ \A p \in Req :
            (/\ req[p].pc = "approve"
             /\ req'[p].pc = "idle"
             /\ prog.current_task_index < prog.limit_snapshot
             /\ prog'.current_task_index >= prog'.limit_snapshot)
            => /\ prog'.is_blocked
               /\ prog'.cycles_completed = prog.cycles_completed + 1
       /\ \A p \in Req :
            (/\ req[p].pc = "spawn"
             /\ req'[p] # req[p]
             /\ prog.is_blocked)
            => /\ req'[p].pc = "idle"
               /\ req'[p].res = "UserBlocked"
       /\ prog.is_blocked => /\ Len(tasks') = Len(tasks)
                             /\ \A i \in 1..Len(directives) :
                                    directives'[i].status = directives[i].status
       /\ (prog.is_blocked /\ ~prog'.is_blocked)
            => /\ prog' = unblock(prog)
               /\ req' = req]_vars

\* C15: the withdrawal cooldown -- can_withdraw is false before the first
\* completed cycle, true after it while no withdrawal was recorded, and a
\* withdrawal is accepted only when the cycles completed since the last
\* recorded withdrawal are at least cycles_between_withdrawals.
C15_WithdrawalCooldown ==
    /\ [](prog.cycles_completed < 1 => ~can_withdraw(prog))
    /\ []((prog.cycles_completed >= 1 /\ prog.last_withdraw_cycle = 0) => can_withdraw(prog))
    /\ [][\A p \in Req :
            (/\ req[p].pc = "withdraw"
             /\ Len(withdrawals') = Len(withdrawals) + 1)
            => /\ prog.cycles_completed >= 1
               /\ \/ prog.last_withdraw_cycle = 0
                  \/ prog.cycles_completed >=
                         prog.last_withdraw_cycle + cycles_between_withdrawals
               /\ prog'.last_withdraw_cycle = prog.cycles_completed]_vars

\* the live directives of the slot (cycle, order), and the live backlog of
\* that order from earlier cycles
ExactSlot(cycle, order) ==
    {i \in 1..Len(directives) : /\ Live(directives[i])
                                /\ directives[i].applies_on_cycle = cycle
                                /\ directives[i].target_order = order}

BacklogSlot(cycle, order) ==
    {i \in 1..Len(directives) : /\ Live(directives[i])
                                /\ directives[i].applies_on_cycle < cycle
                                /\ directives[i].target_order = order}

\* a spawn reads, the user not blocked and without an ADMIN task in flight,
\* while the slot has both an exact directive and a backlog directive
BothEligible(p) ==
    /\ req[p].pc = "spawn"
    /\ req'[p] # req[p]
    /\ ~prog.is_blocked
    /\ ExistingAdmin = 0
    /\ ExactSlot(prog.cycles_completed, prog.current_task_index + 1) # {}
    /\ BacklogSlot(prog.cycles_completed, prog.current_task_index + 1) # {}

\* the spawn goes on with an exact-slot directive
PicksExact(p) ==
    /\ req'[p].pc = "create"
    /\ req'[p].plan.kind = "directive"
    /\ req'[p].plan.d \in ExactSlot(prog.cycles_completed, prog.current_task_index + 1)

\* the spawn's write consumes the directive it picked and no other
ConsumesPicked(p) ==
    (req[p].pc = "create" /\ req'[p].pc = "idle" /\ req[p].plan.kind = "directive")
    => /\ directives'[req[p].plan.d].status = "CONSUMED"
       /\ \A i \in 1..Len(directives) : i # req[p].plan.d => directives'[i] = directives[i]

OldestExact(cycle, order) ==
    CHOOSE i \in ExactSlot(cycle, order) : \A j \in ExactSlot(cycle, order) : i <= j

C17_DirectivesBeatRandom ==
    [][\A p \in Req :
         LET cycle == prog.cycles_completed
             order == prog.current_task_index + 1
             applicable == ExactSlot(cycle, order) \cup BacklogSlot(cycle, order)
             new == Len(tasks) + 1
         IN /\ (/\ req[p].pc = "spawn"
                /\ req'[p] # req[p]
                /\ ~prog.is_blocked
                /\ ExistingAdmin = 0
                /\ applicable # {})
               => \/ /\ req'[p].pc = "idle"
                     /\ req'[p].res = "MissingTemplate"
                     /\ \E i \in applicable : directives[i].template = "NONE"
                  \/ /\ req'[p].pc = "create"
                     /\ req'[p].plan.kind = "directive"
                     /\ req'[p].plan.d \in applicable
                     /\ req'[p].plan.tpl = directives[req'[p].plan.d].template
            /\ (req[p].pc = "create" /\ req'[p].pc = "idle" /\ req[p].plan.kind = "directive")
               => /\ Len(tasks') = new
                  /\ tasks'[new].task_kind = "ADMIN"
                  /\ tasks'[new].template = req[p].plan.tpl
            /\ (/\ req[p].pc = "create" /\ req'[p].pc = "idle"
                /\ Len(tasks') = new
                /\ tasks'[new].task_kind = "REGULAR")
               => req[p].plan.kind = "regular"]_vars

\* a backlog directive of the first cycle was served in the second: an ADMIN
\* task of its template, and no REGULAR task took that slot
C17_Witness ==
    /\ Len(directives) = 1
    /\ directives[1].applies_on_cycle = 0
    /\ directives[1].status = "CONSUMED"
    /\ \E t \in TaskIds : /\ tasks[t].task_kind = "ADMIN"
                          /\ tasks[t].cycle_number = 1
                          /\ tasks[t].order_shown = 1
                          /\ tasks[t].template = directives[1].template
    /\ \A t \in TaskIds : tasks[t].cycle_number = 1 => tasks[t].task_kind = "ADMIN"

\* the directives the spawner consumed, and the ADMIN tasks
Consumed == {i \in 1..Len(directives) : directives[i].status = "CONSUMED"}

AdminTasks == {t \in TaskIds : tasks[t].task_kind = "ADMIN"}

\* task t can be the one directive i produced
ProducedBy(t, i) ==
    /\ tasks[t].task_kind = "ADMIN"
    /\ tasks[t].template = directives[i].template
    /\ tasks[t].order_shown = directives[i].target_order
    /\ tasks[t].cycle_number >= directives[i].applies_on_cycle

C19_OneTaskPerDirective ==
    /\ [](Cardinality(AdminTasks) <= Cardinality(Consumed))
    /\ [][\A p \in Req :
            (/\ req[p].pc = "create"
             /\ req'[p].pc = "idle"
             /\ req[p].plan.kind = "directive"
             /\ Len(tasks') = Len(tasks) + 1)
            => directives[req[p].plan.d].status = "PENDING"]_vars

\* C20: the spawn is idempotent while an ADMIN task is in flight -- a spawn
\* that found the ADMIN task in flight creates no task, consumes no
\* directive and leaves the task's required_cash_cents and
\* assignment_total_display_cents and the dashboard totals as the first
\* assignment set them.
C20_SpawnIdempotentInFlight ==
    [][\A p \in Req :
         (/\ req[p].pc = "create"
          /\ req'[p].pc = "idle"
          /\ req[p].plan.kind = "existing_admin"
          /\ tasks[req[p].t].status \in InFlight)
         => /\ Len(tasks') = Len(tasks)
            /\ directives' = directives
            /\ tasks'[req[p].t].required_cash_cents = tasks[req[p].t].required_cash_cents
            /\ tasks'[req[p].t].assignment_total_display_cents =
                   tasks[req[p].t].assignment_total_display_cents
            /\ display_totals(prog', TheWallet, tasks') = display_totals(prog, TheWallet, tasks)
            /\ prog'.asset_cents = prog.asset_cents
            /\ prog'.processing_cents = prog.processing_cents]_vars

\* the statuses that end a task
Terminal == {"APPROVED", "REJECTED", "CANCELED"}

\* the payout rows of task t
PayoutRows(l, t) == RefCount(l, RegularRef(t)) + RefCount(l, AdminRef(t))

\* C21: terminal task states -- a task APPROVED, REJECTED or CANCELED keeps
\* its status and gets no payout row in any step, and a task becomes
\* REJECTED or CANCELED only from SUBMITTED, IN_PROGRESS or PENDING.
C21_TerminalStates ==
    [][\A t \in TaskIds :
         /\ tasks[t].status \in Terminal
            => /\ tasks'[t].status = tasks[t].status
               /\ PayoutRows(ledger', t) = PayoutRows(ledger, t)
         /\ (tasks'[t].status \in {"REJECTED", "CANCELED"}
             /\ tasks'[t].status # tasks[t].status)
            => tasks[t].status \in {"SUBMITTED", "IN_PROGRESS", "PENDING"}]_vars

\* C21, the interleaving alone: a task REJECTED or CANCELED is never
\* approved and never paid by a submit that checked its status earlier.
C21_NoApprovalAfterDecision ==
    [][\A t \in TaskIds :
         tasks[t].status \in {"REJECTED", "CANCELED"}
         => /\ tasks'[t].status # "APPROVED"
            /\ PayoutRows(ledger', t) = PayoutRows(ledger, t)]_vars

\* C22: the dashboard total reconciles to the wallet -- whenever no ADMIN
\* task is IN_PROGRESS, display_totals gives total = CASH + BONUS and
\* processing = 0.
C22_TotalReconciles ==
    (\A t \in TaskIds : ~(tasks[t].task_kind = "ADMIN" /\ tasks[t].status = "IN_PROGRESS"))
    => /\ display_totals(prog, TheWallet, tasks).total_asset_cents =
              balance_cents + bonus_cents
       /\ display_totals(prog, TheWallet, tasks).processing_cents = 0

C24_SnapshotAtSpawn ==
    /\ [][\A t \in TaskIds : /\ tasks'[t].price_used = tasks[t].price_used
                              /\ tasks'[t].commission_used = tasks[t].commission_used]_vars
    /\ [][\A t \in TaskIds :
            (/\ req[1].pc = "loaded" /\ req'[1].pc # "loaded" /\ req[1].t = t
             /\ req[1].status = "IN_PROGRESS" /\ tasks[t].task_kind = "ADMIN")
            => ((req'[1].res = "InsufficientFunds" /\ req'[1].pc = "idle")
                <=> balance_cents < tasks[t].price_used)]_vars
    /\ [][\A t \in TaskIds :
            (req[1].pc = "approve" /\ req'[1].pc = "idle" /\ req[1].t = t
             /\ tasks[t].status # "APPROVED")
            => /\ prog'.dividends_cents = prog.dividends_cents + tasks[t].commission_used
               /\ balance_cents' - balance_cents =
                      IF tasks[t].task_kind = "ADMIN"
                      THEN (prog.dividends_cents
                            - Max(0, Min(prog.dividends_paid_cents, prog.dividends_cents)))
                           + tasks[t].commission_used
                      ELSE tasks[t].commission_used]_vars

\* an ADMIN task is about to be checked, its template now says another price,
\* and CASH is enough for one of the two prices only
C24_Witness ==
    /\ req[1].pc = "loaded"
    /\ req[1].status = "IN_PROGRESS"
    /\ req[1].t \in TaskIds
    /\ LET t == req[1].t IN
         /\ tasks[t].task_kind = "ADMIN"
         /\ (balance_cents < tasks[t].price_used)
              # (balance_cents < effective_price(tasks[t].template))


C26_NoBlockWhenDisabled ==
    [][\A t \in TaskIds :
         (/\ req[1].pc = "approve" /\ req'[1].pc = "idle" /\ req[1].t = t
          /\ tasks[t].status # "APPROVED"
          /\ ~settings.block_on_reaching_limit
          /\ ~prog.is_blocked
          /\ prog.current_task_index + 1 >= prog.limit_snapshot)
         => /\ prog'.current_task_index = prog.current_task_index + 1
            /\ prog'.is_blocked = FALSE
            /\ prog'.cycles_completed = prog.cycles_completed
            /\ bonus_cents' = bonus_cents]_vars

\* the ADMIN task the dashboard is processing: the newest one not approved
AssignedAdmin ==
    LET S == {t \in TaskIds : tasks[t].task_kind = "ADMIN" /\ tasks[t].status # "APPROVED"}
    IN IF S = {} THEN 0 ELSE CHOOSE t \in S : \A u \in S : u <= t

RECURSIVE SumRequired(_)
SumRequired(S) ==
    IF S = {} THEN 0
    ELSE LET t == CHOOSE x \in S : TRUE
         IN tasks[t].required_cash_cents + SumRequired(S \ {t})

\* the three regimes of the dashboard, as the specification words them
DisplayReference ==
    LET walletTotal == balance_cents + bonus_cents
        approved == {t \in TaskIds : tasks[t].task_kind = "ADMIN"
                                     /\ tasks[t].status = "APPROVED"}
    IN IF prog.processing_cents > 0
       THEN LET asset == IF AssignedAdmin = 0 THEN 0
                         ELSE 0 - tasks[AssignedAdmin].required_cash_cents
            IN [total |-> asset, asset |-> asset,
                dividends |-> Min(prog.dividends_paid_cents, walletTotal)]
       ELSE IF approved # {}
       THEN [total |-> walletTotal,
             asset |-> Min(SumRequired(approved), walletTotal),
             dividends |-> prog.dividends_cents]
       ELSE [total |-> walletTotal,
             asset |-> walletTotal - Min(prog.dividends_paid_cents, walletTotal),
             dividends |-> Min(prog.dividends_paid_cents, walletTotal)]

C28_AssignmentSnapshot ==
    [][(/\ req[1].pc = "create"
        /\ Len(tasks') = Len(tasks) + 1
        /\ tasks'[Len(tasks')].task_kind = "ADMIN")
       => LET t == Len(tasks')
              total == balance_cents + bonus_cents
          IN /\ tasks'[t].assignment_total_display_cents = total
             /\ tasks'[t].required_cash_cents = Max(0, tasks'[t].price_used - total)]_vars

\* C29: an assigned ADMIN task can be submitted once CASH has grown by its
\* required_cash_cents since the assignment; with required_cash_cents = 0 it
\* can be submitted at once: the solvency check of submit lets it through.
C29_RequiredCashUnlocks ==
    [][\A t \in TaskIds :
         (/\ req[1].pc = "loaded" /\ req'[1].pc # "loaded" /\ req[1].t = t
          /\ req[1].status = "IN_PROGRESS"
          /\ tasks[t].task_kind = "ADMIN"
          /\ tasks[t].required_cash_cents = 0)
         => ~(req'[1].pc = "idle" /\ req'[1].res = "InsufficientFunds")]_vars

\* C30: a spawn that takes the random branch plans a template that is ACTIVE,
\* not an admin template, and priced within CASH + BONUS as it reads them, and
\* the REGULAR task it creates is of that template; when no template is
\* ACTIVE, non-admin and within CASH + BONUS, the spawn ends with the error
\* and leaves the tasks, the progress row, the wallet and the ledger alone.
C30_RandomWithinEligible ==
    /\ [][(req[1].pc = "spawn" /\ req'[1].pc = "create" /\ req'[1].plan.kind = "regular")
          => LET k == req'[1].plan.tpl
             IN /\ catalog[k].status = "ACTIVE"
                /\ ~catalog[k].is_admin_task
                /\ (IF catalog[k].task_price = Null THEN settings.task_price
                    ELSE catalog[k].task_price) <= balance_cents + bonus_cents]_vars
    /\ [][(req[1].pc = "create" /\ req[1].plan.kind = "regular" /\ req'[1].pc = "idle")
          => /\ Len(tasks') = Len(tasks) + 1
             /\ tasks'[Len(tasks')].task_kind = "REGULAR"
             /\ tasks'[Len(tasks')].template = req[1].plan.tpl]_vars
    /\ [][(/\ req[1].pc = "spawn" /\ req'[1].pc # "spawn"
           /\ ~prog.is_blocked
           /\ ExistingAdmin = 0
           /\ ResolveDirective(directives, prog.cycles_completed,
                               prog.current_task_index + 1) = 0
           /\ \A k \in TemplateIds :
                 \/ catalog[k].status # "ACTIVE"
                 \/ catalog[k].is_admin_task
                 \/ (IF catalog[k].task_price = Null THEN settings.task_price
                     ELSE catalog[k].task_price) > balance_cents + bonus_cents)
          => /\ req'[1].pc = "idle"
             /\ req'[1].res \in {"NoEligibleTasks", "NoActiveTemplates"}
             /\ UNCHANGED <<tasks, prog, walletVars>>]_vars

\* a spawn that found ACTIVE regular templates but none within the wallet,
\* after an earlier task of a template that has since been repriced
C30_Witness ==
    /\ req[1].res = "NoEligibleTasks"
    /\ \E t \in TaskIds : tasks[t].task_kind = "REGULAR"
    /\ \E k \in ActiveRegular : effective_price(k) > balance_cents + bonus_cents

\* the two-pass lookup as the specification words it, over the whole table:
\* the position of the row it names, 0 for none
LookupReference(rows, u, cycle, order) ==
    LET candidates == {i \in 1..Len(rows) : /\ rows[i].user = u
                                            /\ rows[i].status = "PENDING"
                                            /\ ~rows[i].expired}
        exact == {i \in candidates : /\ rows[i].applies_on_cycle = cycle
                                     /\ rows[i].target_order = order}
        backlog == {i \in candidates : /\ rows[i].target_order = order
                                       /\ rows[i].applies_on_cycle <= cycle}
        Smallest(S) == CHOOSE i \in S : \A j \in S :
                          \/ rows[i].applies_on_cycle < rows[j].applies_on_cycle
                          \/ /\ rows[i].applies_on_cycle = rows[j].applies_on_cycle
                             /\ i <= j
    IN IF exact # {} THEN Smallest(exact)
       ELSE IF backlog # {} THEN Smallest(backlog)
       ELSE 0

\* C31: the directive the lookup finds is the one of the two-pass reference:
\* the earliest created PENDING unexpired directive of the user on the exact
\* (cycle, order), else the one on the same order with the smallest
\* (applies_on_cycle, created_at) among cycles up to the current one; it is
\* never expired, CANCELED, CONSUMED, of another user, of another order or of
\* a later cycle.
C31_LookupMatchesReference ==
    req[1].res = "looked" =>
        LET d == req[1].plan.d IN
        /\ d = LookupReference(directives, "user", req[1].plan.cycle, req[1].plan.order)
        /\ d # 0 => /\ directives[d].status = "PENDING"
                     /\ ~directives[d].expired
                     /\ directives[d].user = "user"
                     /\ directives[d].target_order = req[1].plan.order
                     /\ directives[d].applies_on_cycle <= req[1].plan.cycle

\* the lookup served a backlog directive past an expired directive of the
\* exact slot and a live one of another user
C31_Witness ==
    /\ req[1].res = "looked"
    /\ req[1].plan.d # 0
    /\ directives[req[1].plan.d].applies_on_cycle < req[1].plan.cycle
    /\ \E i \in 1..Len(directives) :
          /\ directives[i].user = "user" /\ directives[i].expired
          /\ directives[i].applies_on_cycle = req[1].plan.cycle
          /\ directives[i].target_order = req[1].plan.order
    /\ \E i \in 1..Len(directives) :
          /\ directives[i].user = "other" /\ directives[i].status = "PENDING"
          /\ ~directives[i].expired
          /\ directives[i].applies_on_cycle = req[1].plan.cycle
          /\ directives[i].target_order = req[1].plan.order

\* C32: no two directives of the user are on the same
\* (applies_on_cycle, target_order).
C32_SlotUnique ==
    \A i, j \in 1..Len(directives) :
        (/\ directives[i].applies_on_cycle = directives[j].applies_on_cycle
         /\ directives[i].target_order = directives[j].target_order)
        => i = j

\* the BONUS rows an approval appended to the ledger
NewBonusRows ==
    {n \in (Len(ledger) + 1)..Len(ledger') : ledger'[n].bucket = "BONUS"}

\* C33: an approval whose advance blocks the user, with
\* clear_trial_bonus_at_limit enabled and BONUS > 0, leaves BONUS at 0 and
\* appends exactly one BONUS row, of minus the bonus it removed; an advance
\* that does not block, or finds the flag disabled or BONUS at 0, appends no
\* BONUS row and leaves BONUS as it was.
C33_BonusClearedOnce ==
    [][\A p \in Req :
         (req[p].pc \in {"approve", "clear"} /\ req'[p].pc = "idle")
         => LET hit == /\ settings.block_on_reaching_limit
                       /\ req[p].self.current_task_index + 1 >= req[p].self.limit_snapshot
            IN IF hit /\ settings.clear_trial_bonus_at_limit /\ bonus_cents > 0
               THEN /\ bonus_cents' = 0
                    /\ Cardinality(NewBonusRows) = 1
                    /\ \A n \in NewBonusRows : ledger'[n].amount_cents = 0 - bonus_cents
               ELSE /\ bonus_cents' = bonus_cents
                    /\ NewBonusRows = {}]_vars

\* C34: a deposit is credited exactly once: the step that confirms a
\* DepositRequest raises CASH by the deposit's amount, no more, and no step
\* on a deposit already confirmed raises CASH.
C34_DepositCreditedOnce ==
    [][\A d \in 1..Len(deposits) :
         (deposits[d].status # "confirmed" /\ deposits'[d].status = "confirmed")
         => balance_cents' = balance_cents + deposits[d].amount_cents]_vars

\* C35: dividends are always fully paid: in every reachable state
\* dividends_paid_cents equals dividends_cents.
C35_DividendsFullyPaid == prog.dividends_paid_cents = prog.dividends_cents

RECURSIVE ApprovedCommission(_)
\* sum of commission_used over the APPROVED tasks among S
ApprovedCommission(S) ==
    IF S = {} THEN 0
    ELSE LET t == CHOOSE x \in S : TRUE
         IN (IF tasks[t].status = "APPROVED" THEN tasks[t].commission_used ELSE 0)
            + ApprovedCommission(S \ {t})

RECURSIVE PayoutCredits(_)
\* sum of the ledger rows written as REGULAR_TASK_PAYOUT#pk or ADMIN_TASK_PAYOUT#pk
PayoutCredits(l) ==
    IF l = <<>> THEN 0
    ELSE (IF Head(l).external_ref[1] \in {"REGULAR_TASK_PAYOUT", "ADMIN_TASK_PAYOUT"}
          THEN Head(l).amount_cents ELSE 0)
         + PayoutCredits(Tail(l))

\* C36: dividends account for approved tasks exactly: in every reachable
\* state dividends_cents equals the sum of commission_used over the APPROVED
\* tasks and equals the sum of the task-payout credits of the ledger.
C36_DividendsAccountForApprovals ==
    /\ prog.dividends_cents = ApprovedCommission(TaskIds)
    /\ prog.dividends_cents = PayoutCredits(ledger)

\* C37: cycle counters stay in range: current_task_index never exceeds
\* limit_snapshot; cycles_completed changes only by one, in the step that
\* takes the index from below the limit to the limit and blocks the user;
\* while the user is blocked no step advances the index or counts a cycle.
C37_CycleCountersInRange ==
    /\ [](prog.current_task_index <= prog.limit_snapshot)
    /\ [][/\ prog'.cycles_completed # prog.cycles_completed
             => /\ prog'.cycles_completed = prog.cycles_completed + 1
                /\ prog.current_task_index < prog.limit_snapshot
                /\ prog'.current_task_index = prog'.limit_snapshot
                /\ prog'.is_blocked
          /\ prog.is_blocked
             => /\ prog'.cycles_completed = prog.cycles_completed
                /\ prog'.current_task_index <= prog.current_task_index]_vars

\* C38: no permanent stall: when a user who is not blocked, has no task in
\* flight and has an ACTIVE non-admin template priced within CASH + BONUS
\* asks for the next task, the spawn plans a task; no PENDING directive makes
\* it fail.
C38_NoStall ==
    [][\A p \in Req :
         (/\ req[p].pc = "spawn"
          /\ req'[p].pc # "spawn"
          /\ ~prog.is_blocked
          /\ \A t \in TaskIds : tasks[t].status \notin InFlight
          /\ Eligible # {})
         => req'[p].pc = "create"]_vars

====
